---- MODULE Spec2Model ----
(***************************************************************************)
(* Debug adapter lifecycle of the IDE's debug extension:                   *)
(*   DebugAdapterContributionRegistry, DebugAdapterSessionManager and      *)
(*   DebugServiceImpl (debug service on the backend).                      *)
(*                                                                         *)
(* A JavaScript Map is a sequence of <<key, value>> entries in insertion   *)
(* order.  A session object lives in `heap`; a reference to it is its      *)
(* index there.  Identifiers, debug types and error messages are strings.  *)
(***************************************************************************)
EXTENDS Naturals, Sequences, FiniteSets, TLC

VARIABLES
    contributions,  \* what ContributionProvider.getContributions() returned
    contribs,       \* DebugAdapterContributionRegistry.contribs
    sessions,       \* DebugAdapterSessionManager.sessions
    heap,           \* every DebugAdapterSession a factory has constructed
    uuidCount,      \* how many identifiers UUID.uuid4() has handed out
    calls,          \* the promises of the start calls whose create returned
    live,           \* history: sessions create returned, not removed since
    held,           \* <<a>>: the array a of a findAll() call that a caller kept
    frame,          \* <<f>>: the activation f of create that is inside factory.get
    ui,             \* the browser's debug commands and DebugClientManager
    ws,             \* a WorkspaceStorageService and the storage under it
    entry,          \* a CachedRemoteEntry and the requests made for it
    lastOp          \* the last step taken, and its outcome

vars == <<contributions, contribs, sessions, heap, uuidCount, calls, live, held,
         frame, ui, ws, entry, lastOp>>

(***************************************************************************)
(* Bounds.                                                                 *)
(***************************************************************************)
\* start calls made in one behaviour; each draws one identifier
MaxStarts == 3

\* contributions the provider returns at most
MaxContributions == 3

\* executions of the START command in one behaviour
MaxChains == 2

\* setData and getData calls on the workspace storage in one behaviour
MaxStorageCalls == 3

\* polls of the remote entry in one behaviour
MaxPolls == 3

(***************************************************************************)
(* Map<K, V> of ECMAScript: entries in insertion order.                    *)
(***************************************************************************)
MapKeys(m) == [i \in 1..Len(m) |-> m[i][1]]

MapValues(m) == [i \in 1..Len(m) |-> m[i][2]]

MapHas(m, k) == \E i \in 1..Len(m) : m[i][1] = k

MapIndex(m, k) == CHOOSE i \in 1..Len(m) : m[i][1] = k

\* variant: an existing key is deleted and set anew, at the end
MapSetMoveToEnd(m, k, v) ==
    Append(SelectSeq(m, LAMBDA e : e[1] # k), <<k, v>>)

\* Map.prototype.set: an existing key keeps its place and gets the new value
MapSet(m, k, v) ==
    IF MapHas(m, k)
    THEN [m EXCEPT ![MapIndex(m, k)] = <<k, v>>]
    ELSE Append(m, <<k, v>>)

\* Map.prototype.delete
MapDelete(m, k) == SelectSeq(m, LAMBDA e : e[1] # k)

(***************************************************************************)
(* Values.                                                                 *)
(***************************************************************************)
\* `undefined` where a session reference is expected
NoSession == 0

\* DebugConfiguration: the type discriminator and the name
Config(t, n) == [type |-> t, name |-> n]

\* the configurations clients start
Configs ==
    { Config("mock", "Launch"), Config("mock", "Attach"), Config("nonexistent", "x") }

\* DebugAdapterContribution: debugType, its optional session factory
\* ("" is undefined), and the configuration names for which its
\* provideDebugAdapterExecutable throws; `label` tells two contributions of
\* one type apart
Contribution(t, l, f, bad) ==
    [debugType |-> t, label |-> l, debugAdapterSessionFactory |-> f,
     rejects |-> bad]

MockA == Contribution("mock", "mockA", "", {"Attach"})
MockB == Contribution("mock", "mockB", "factory:mockB", {"Attach"})
NodeA == Contribution("node", "nodeA", "factory:nodeA", {})

\* what ContributionProvider.getContributions() may return, in order
ContributionLists == { <<MockA, NodeA>>, <<MockA, NodeA, MockB>> }

\* every list of at most MaxContributions contributions, repeats included
RegistryLists ==
    UNION { [1..n -> {MockA, MockB, NodeA}] : n \in 0..MaxContributions }

\* the debug types and configurations clients ask the registry about
TypeArgs == {"mock", "node", "nonexistent"}

QueryConfigs ==
    Configs \cup { Config("node", "Launch"), Config("mock", "Invalid") }

\* contrib.provideDebugConfigurations: the contribution's templates
ContribConfigurations(c) ==
    IF c.label = "mockB"
    THEN <<Config(c.debugType, "Launch"), Config(c.debugType, "Attach")>>
    ELSE <<Config(c.debugType, "Launch")>>

\* contrib.resolveDebugConfiguration(config): [ok, value], the resolved
\* configuration, a new record, or the contribution's validation error
ContribResolve(c, config) ==
    IF config.name = "Invalid"
    THEN [ok |-> FALSE, value |-> "invalid for " \o c.label \o ": " \o config.name]
    ELSE [ok |-> TRUE,
          value |-> [type |-> config.type, name |-> config.name,
                     resolvedBy |-> c.label]]

\* the injected default DebugAdapterSessionFactory
defaultFactory == "factory:default"

Uuid(i) == "uuid-" \o ToString(i)

\* the strings a client may pass as a session identifier
IdArgs == { Uuid(i) : i \in 1..MaxStarts } \cup {""}

(***************************************************************************)
(* Errors.                                                                 *)
(***************************************************************************)
NotRegistered(t) == "Debug adapter '" \o t \o "' isn't registered."

ContributorError(c, config) == "rejected by " \o c.label \o ": " \o config.name

HandshakeError(id) == "handshake failed: " \o id

NoError == ""

(***************************************************************************)
(* DebugAdapterContributionRegistry.                                       *)
(***************************************************************************)
RECURSIVE RegisterFirstWins(_, _)
\* variant: a debug type already registered keeps its contribution
RegisterFirstWins(m, list) ==
    IF list = <<>> THEN m
    ELSE RegisterFirstWins(IF MapHas(m, Head(list).debugType) THEN m
                           ELSE MapSet(m, Head(list).debugType, Head(list)),
                           Tail(list))

RECURSIVE RegisterAll(_, _)
\* the constructor's loop: contribs.set(contrib.debugType, contrib)
RegisterAll(m, list) ==
    IF list = <<>> THEN m
    ELSE RegisterAll(MapSet(m, Head(list).debugType, Head(list)), Tail(list))

\* variant: the first contribution answers for every registered type
ContribFirst(t) == contribs[1][2]

\* contribs.get(t), where MapHas(contribs, t)
Contrib(t) == contribs[MapIndex(contribs, t)][2]

\* debugTypes(): Array.from(this.contribs.keys())
debugTypes == MapKeys(contribs)

\* provideDebugConfigurations(debugType): [ok, value]
provideDebugConfigurations(debugType) ==
    IF MapHas(contribs, debugType)
    THEN [ok |-> TRUE, value |-> ContribConfigurations(Contrib(debugType))]
    ELSE [ok |-> FALSE, value |-> NotRegistered(debugType)]

\* variant: an unregistered type leaves the configuration as it is
resolveOrKeep(config) ==
    IF MapHas(contribs, config.type)
    THEN ContribResolve(Contrib(config.type), config)
    ELSE [ok |-> TRUE, value |-> config]

\* variant: the registry stamps the resolved configuration with the
\* contribution that resolved it
resolveStamping(config) ==
    IF MapHas(contribs, config.type)
    THEN LET r == ContribResolve(Contrib(config.type), config)
         IN  IF r.ok
             THEN [ok |-> TRUE,
                   value |-> [r.value EXCEPT !.type = Contrib(config.type).label]]
             ELSE r
    ELSE [ok |-> FALSE, value |-> NotRegistered(config.type)]

\* variant: the contribution's error is wrapped in an error of the registry
resolveWrapping(config) ==
    IF MapHas(contribs, config.type)
    THEN LET r == ContribResolve(Contrib(config.type), config)
         IN  IF r.ok THEN r
             ELSE [ok |-> FALSE,
                   value |-> "Cannot resolve '" \o config.name \o "': " \o r.value]
    ELSE [ok |-> FALSE, value |-> NotRegistered(config.type)]

\* resolveDebugConfiguration(config): [ok, value]
resolveDebugConfiguration(config) ==
    IF MapHas(contribs, config.type)
    THEN ContribResolve(Contrib(config.type), config)
    ELSE [ok |-> FALSE, value |-> NotRegistered(config.type)]

\* variant: an unregistered type is served by the first contribution
provideExecutableOfFirst(config) ==
    LET c == IF MapHas(contribs, config.type) THEN Contrib(config.type)
             ELSE contribs[1][2]
    IN  IF config.name \in c.rejects
        THEN [ok |-> FALSE, value |-> ContributorError(c, config)]
        ELSE [ok |-> TRUE, value |-> "exec:" \o c.label \o ":" \o config.name]

\* provideDebugAdapterExecutable: [ok, value] with value the executable or
\* the error thrown
provideDebugAdapterExecutable(config) ==
    IF MapHas(contribs, config.type)
    THEN LET c == Contrib(config.type)
         IN  IF config.name \in c.rejects
             THEN [ok |-> FALSE, value |-> ContributorError(c, config)]
             ELSE [ok |-> TRUE, value |-> "exec:" \o c.label \o ":" \o config.name]
    ELSE [ok |-> FALSE, value |-> NotRegistered(config.type)]

\* variant: a contribution without a factory gets the factory of the first
\* contribution
sessionFactoryOrFirst(debugType) ==
    IF MapHas(contribs, debugType)
    THEN IF Contrib(debugType).debugAdapterSessionFactory # ""
         THEN Contrib(debugType).debugAdapterSessionFactory
         ELSE contribs[1][2].debugAdapterSessionFactory
    ELSE ""

\* debugAdapterSessionFactory: the contribution's factory or "" (undefined)
debugAdapterSessionFactory(debugType) ==
    IF MapHas(contribs, debugType)
    THEN Contrib(debugType).debugAdapterSessionFactory
    ELSE ""

(***************************************************************************)
(* DebugAdapterSessionManager.                                             *)
(***************************************************************************)
\* variant: the identifier is numbered by the sessions now in the map
uuid4BySize == Uuid(Len(sessions) + 1)

\* UUID.uuid4(): an identifier that was not handed out before
uuid4 == Uuid(uuidCount + 1)

\* DebugAdapterSessionFactory.get(sessionId, config, executable): the new
\* session, its handshake not begun and its adapter alive
FactoryGet(factory, sessionId, config, executable) ==
    [id |-> sessionId, config |-> config, executable |-> executable,
     factory |-> factory, handshake |-> "none", life |-> "alive"]

\* variant: the session is keyed and identified by its configuration's name
createKeyedByName(config) ==
    LET sessionId  == config.name
        custom     == debugAdapterSessionFactory(config.type)
        factory    == IF custom # "" THEN custom ELSE defaultFactory
        executable == provideDebugAdapterExecutable(config)
    IN  IF ~executable.ok
        THEN [ok |-> FALSE, error |-> executable.value, sessionId |-> sessionId,
              heap |-> heap, sessions |-> sessions, session |-> NoSession]
        ELSE LET session == FactoryGet(factory, sessionId, config, executable.value)
                 ref     == Len(heap) + 1
             IN  [ok |-> TRUE, error |-> NoError, sessionId |-> sessionId,
                  heap |-> Append(heap, session),
                  sessions |-> MapSet(sessions, sessionId, ref), session |-> ref]

\* variant: the session is returned without sessions.set
createWithoutSet(config) ==
    LET sessionId  == uuid4
        custom     == debugAdapterSessionFactory(config.type)
        factory    == IF custom # "" THEN custom ELSE defaultFactory
        executable == provideDebugAdapterExecutable(config)
    IN  IF ~executable.ok
        THEN [ok |-> FALSE, error |-> executable.value, sessionId |-> sessionId,
              heap |-> heap, sessions |-> sessions, session |-> NoSession]
        ELSE LET session == FactoryGet(factory, sessionId, config, executable.value)
                 ref     == Len(heap) + 1
             IN  [ok |-> TRUE, error |-> NoError, sessionId |-> sessionId,
                  heap |-> Append(heap, session),
                  sessions |-> sessions, session |-> ref]

\* variant: a failure of the provisioning is caught and the session is
\* built without an executable
createSwallowing(config) ==
    LET sessionId  == uuid4
        custom     == debugAdapterSessionFactory(config.type)
        factory    == IF custom # "" THEN custom ELSE defaultFactory
        executable == provideDebugAdapterExecutable(config)
        session    == FactoryGet(factory, sessionId, config,
                                 IF executable.ok THEN executable.value ELSE "")
        ref        == Len(heap) + 1
    IN  [ok |-> TRUE, error |-> NoError, sessionId |-> sessionId,
         heap |-> Append(heap, session),
         sessions |-> MapSet(sessions, sessionId, ref), session |-> ref]

\* variant: the new session replaces the sessions held so far
createReplacing(config) ==
    LET sessionId  == uuid4
        custom     == debugAdapterSessionFactory(config.type)
        factory    == IF custom # "" THEN custom ELSE defaultFactory
        executable == provideDebugAdapterExecutable(config)
    IN  IF ~executable.ok
        THEN [ok |-> FALSE, error |-> executable.value, sessionId |-> sessionId,
              heap |-> heap, sessions |-> sessions, session |-> NoSession]
        ELSE LET session == FactoryGet(factory, sessionId, config, executable.value)
                 ref     == Len(heap) + 1
             IN  [ok |-> TRUE, error |-> NoError, sessionId |-> sessionId,
                  heap |-> Append(heap, session),
                  sessions |-> <<<<sessionId, ref>>>>, session |-> ref]

\* variant: the map key is a second identifier, not the one the factory got
createKeyedApart(config) ==
    LET sessionId  == uuid4
        custom     == debugAdapterSessionFactory(config.type)
        factory    == IF custom # "" THEN custom ELSE defaultFactory
        executable == provideDebugAdapterExecutable(config)
    IN  IF ~executable.ok
        THEN [ok |-> FALSE, error |-> executable.value, sessionId |-> sessionId,
              heap |-> heap, sessions |-> sessions, session |-> NoSession]
        ELSE LET session == FactoryGet(factory, sessionId, config, executable.value)
                 ref     == Len(heap) + 1
             IN  [ok |-> TRUE, error |-> NoError, sessionId |-> sessionId,
                  heap |-> Append(heap, session),
                  sessions |-> MapSet(sessions, Uuid(uuidCount + 2), ref),
                  session |-> ref]

\* variant: the factory makes the session before the executable is asked for
createFactoryFirst(config) ==
    LET sessionId  == uuid4
        custom     == debugAdapterSessionFactory(config.type)
        factory    == IF custom # "" THEN custom ELSE defaultFactory
        executable == provideDebugAdapterExecutable(config)
        session    == FactoryGet(factory, sessionId, config, "")
        ref        == Len(heap) + 1
    IN  IF ~executable.ok
        THEN [ok |-> FALSE, error |-> executable.value, sessionId |-> sessionId,
              heap |-> Append(heap, session), sessions |-> sessions,
              session |-> NoSession]
        ELSE [ok |-> TRUE, error |-> NoError, sessionId |-> sessionId,
              heap |-> Append(heap, [session EXCEPT !.executable = executable.value]),
              sessions |-> MapSet(sessions, sessionId, ref), session |-> ref]

\* variant: the session always comes from the default factory
createDefaultFactory(config) ==
    LET sessionId  == uuid4
        factory    == defaultFactory
        executable == provideDebugAdapterExecutable(config)
    IN  IF ~executable.ok
        THEN [ok |-> FALSE, error |-> executable.value, sessionId |-> sessionId,
              heap |-> heap, sessions |-> sessions, session |-> NoSession]
        ELSE LET session == FactoryGet(factory, sessionId, config, executable.value)
                 ref     == Len(heap) + 1
             IN  [ok |-> TRUE, error |-> NoError, sessionId |-> sessionId,
                  heap |-> Append(heap, session),
                  sessions |-> MapSet(sessions, sessionId, ref), session |-> ref]

\* create(config): [ok, error, sessionId, heap, sessions, session]
create(config) ==
    LET sessionId  == uuid4
        custom     == debugAdapterSessionFactory(config.type)
        factory    == IF custom # "" THEN custom ELSE defaultFactory
        executable == provideDebugAdapterExecutable(config)
    IN  IF ~executable.ok
        THEN [ok |-> FALSE, error |-> executable.value, sessionId |-> sessionId,
              heap |-> heap, sessions |-> sessions, session |-> NoSession]
        ELSE LET session == FactoryGet(factory, sessionId, config, executable.value)
                 ref     == Len(heap) + 1
             IN  [ok |-> TRUE, error |-> NoError, sessionId |-> sessionId,
                  heap |-> Append(heap, session),
                  sessions |-> MapSet(sessions, sessionId, ref), session |-> ref]

\* variant: sessions.clear()
removeAll(m, sessionId) == <<>>

\* variant: nothing is deleted
removeNothing(m, sessionId) == m

\* remove(sessionId): the sessions map afterwards
remove(m, sessionId) == MapDelete(m, sessionId)

\* variant: the oldest session, whatever the key
findOldest(m, sessionId) == IF m # <<>> THEN m[1][2] ELSE NoSession

\* find(sessionId): the session or undefined
find(m, sessionId) ==
    IF MapHas(m, sessionId) THEN m[MapIndex(m, sessionId)][2] ELSE NoSession

\* findAll(): a new array of the map's values
findAll(m) == MapValues(m)

Range(seq) == { seq[i] : i \in 1..Len(seq) }

(***************************************************************************)
(* Arrays as objects: an array either holds its own elements or, as a view, *)
(* shows the values of the sessions map as they are when it is read.       *)
(***************************************************************************)
\* the elements of array a, read while the sessions map is m
ArrayItems(a, m) == IF a.view THEN MapValues(m) ELSE a.items

\* a.pop() while the sessions map is m: the array and the map afterwards
ArrayPop(a, m) ==
    IF a.view
    THEN [array |-> a, sessions |-> SubSeq(m, 1, Len(m) - 1)]
    ELSE [array |-> [a EXCEPT !.items = SubSeq(@, 1, Len(@) - 1)], sessions |-> m]

\* variant: findAll() hands out a view of the map's values
findAllView(m) == [view |-> TRUE, items |-> <<>>]

\* the array object findAll() returns: Array.from makes a new array
findAllArray(m) == [view |-> FALSE, items |-> findAll(m)]

(***************************************************************************)
(* DebugAdapterSession, as DebugServiceImpl drives it.                     *)
(***************************************************************************)
\* session.start(): the handshake begins
SessionStart(s) == [s EXCEPT !.handshake = "pending"]

\* session.stop(): a termination request; a live adapter begins to stop
SessionStop(s) == IF s.life = "alive" THEN [s EXCEPT !.life = "stopping"] ELSE s

(***************************************************************************)
(* DebugServiceImpl.                                                       *)
(***************************************************************************)
\* variant: the identifier is returned without awaiting session.start()
startPromiseUnawaited(ref, s) ==
    [session |-> ref, status |-> "resolved", value |-> s.id]

\* variant: the session is kept in a field that the next start overwrites
startPromiseSharedSession(ref, s) ==
    IF s.handshake = "ok"
    THEN [session |-> ref, status |-> "resolved", value |-> heap[Len(heap)].id]
    ELSE IF s.handshake = "failed"
         THEN [session |-> ref, status |-> "rejected", value |-> HandshakeError(s.id)]
         ELSE [session |-> ref, status |-> "pending", value |-> ""]

\* start's promise, session.start().then(() => session.id), for the session
\* that create returned: [session, status, value]
startPromise(ref, s) ==
    IF s.handshake = "ok"
    THEN [session |-> ref, status |-> "resolved", value |-> s.id]
    ELSE IF s.handshake = "failed"
         THEN [session |-> ref, status |-> "rejected", value |-> HandshakeError(s.id)]
         ELSE [session |-> ref, status |-> "pending", value |-> ""]

\* variant: without an id only the first session is stopped
disposeFirstOnly(m, args) ==
    IF Len(args) = 1 /\ args[1] # ""
    THEN LET debugSession == find(m, args[1])
         IN  IF debugSession # NoSession THEN <<debugSession>> ELSE <<>>
    ELSE IF findAll(m) = <<>> THEN <<>> ELSE <<findAll(m)[1]>>

\* variant: only sessions whose start has completed are stopped
disposeStartedOnly(m, args) ==
    SelectSeq(IF Len(args) = 1 /\ args[1] # ""
              THEN LET debugSession == find(m, args[1])
                   IN  IF debugSession # NoSession THEN <<debugSession>> ELSE <<>>
              ELSE findAll(m),
              LAMBDA ref : heap[ref].handshake # "pending")

\* dispose(sessionId?): the sessions whose stop() is called, in call order;
\* args is the argument list, <<>> or <<sessionId>>
dispose(m, args) ==
    IF Len(args) = 1 /\ args[1] # ""
    THEN LET debugSession == find(m, args[1])
         IN  IF debugSession # NoSession THEN <<debugSession>> ELSE <<>>
    ELSE findAll(m)

RECURSIVE RemoveEach(_, _)
\* remove(id) for every id of ids
RemoveEach(m, ids) ==
    IF ids = {} THEN m
    ELSE LET id == CHOOSE x \in ids : TRUE
         IN  RemoveEach(remove(m, id), ids \ {id})

RECURSIVE ForEachOverMap(_, _, _, _, _, _)
\* variant: the loop reads the map's values at every round
ForEachOverMap(a, i, m, stopped, pos, ids) ==
    IF i > Len(MapValues(m)) THEN [stopped |-> stopped, sessions |-> m]
    ELSE ForEachOverMap(a, i + 1, IF i = pos THEN RemoveEach(m, ids) ELSE m,
                        Append(stopped, MapValues(m)[i]), pos, ids)

RECURSIVE ForEachStop(_, _, _, _, _, _)
\* a.forEach(debugSession => debugSession.stop()) from index i on, where the
\* stop() of round pos has remove(id) called for every id of ids before it
\* returns: the sessions stopped, in order, and the map afterwards
ForEachStop(a, i, m, stopped, pos, ids) ==
    IF i > Len(ArrayItems(a, m)) THEN [stopped |-> stopped, sessions |-> m]
    ELSE ForEachStop(a, i + 1, IF i = pos THEN RemoveEach(m, ids) ELSE m,
                     Append(stopped, ArrayItems(a, m)[i]), pos, ids)

(***************************************************************************)
(* Steps.                                                                  *)
(***************************************************************************)
Op(op, arg, ret, err) == [op |-> op, arg |-> arg, ret |-> ret, err |-> err]

(***************************************************************************)
(* The browser: DebugCommandHandlers and the DebugClientManager, the       *)
(* DebugConfigurationManager and the DebugService proxy it calls.  ui is   *)
(*   objects  every DebugClient made, a reference being its index          *)
(*   clients  DebugClientManager's clients by session id                   *)
(*   active   DebugClientManager's active client                           *)
(*   chains   the promise chains of the START executions                   *)
(***************************************************************************)
\* `undefined` where a DebugClient is expected
NoClient == 0

\* `undefined` where a DebugConfiguration is expected
NoConfig == Config("", "")

\* the browser after start-up: no debug client, no START chain under way
UiInit == [objects |-> <<>>, clients |-> <<>>, active |-> NoClient, chains |-> <<>>]

\* debugClientManager.getActiveDebugClient()
getActiveDebugClient == ui.active

\* isEnabled of the START handler
StartEnabled == getActiveDebugClient = NoClient

\* variant: STOP is enabled whenever a client exists
StopEnabledWithClients == ui.clients # <<>>

\* isEnabled of the STOP handler
StopEnabled == getActiveDebugClient # NoClient

\* the rejection of the START chain when resolve yields nothing
NotResolved == "Debug configuration isn't resolved"

\* the calls of one START chain, in the order of its source
ChainOrder ==
    <<"getConfiguration", "resolveDebugConfiguration", "startDebugSession",
      "create", "connect", "setActiveDebugClient", "initialize">>

\* a chain that has called getConfiguration()
NewChain ==
    [step |-> "getConfiguration", trace |-> <<"getConfiguration">>,
     config |-> NoConfig, client |-> NoClient, err |-> NoError]

\* a chain whose promise is rejected with e: no later `then` runs
Rejected(chain, e) == [chain EXCEPT !.step = "rejected", !.err = e]

\* debugClientManager.create(sessionId): a new DebugClient, kept by its id
NewClient(sessionId) ==
    [sessionId |-> sessionId, connected |-> FALSE, disposed |-> FALSE,
     sent |-> <<>>]

(***************************************************************************)
(* WorkspaceStorageService.  A field that was never assigned is <<>>, one  *)
(* that holds v is <<v>>.  ws is                                           *)
(*   root         workspaceService.root: "pending", "resolved", "rejected" *)
(*   stat         what root resolved with, NoStat for undefined            *)
(*   prefix       this.prefix                                              *)
(*   initialized  this.initialized: "pending", "resolved", "rejected"      *)
(*   waiting      the calls suspended at `await this.initialized`          *)
(*   jobs         the promise jobs queued, run first in, first out         *)
(*   count        the setData and getData calls made                       *)
(*   log          the calls made on the underlying storage service         *)
(***************************************************************************)
\* `undefined` where a FileStat is expected
NoStat == ""

\* the FileStat uris a workspace root resolves with
RootUris == {"file:///home/ws"}

\* the keys clients store data under
StorageKeys == {"layout"}

\* a string concatenated with a field: `undefined` becomes "undefined"
FieldToString(field) == IF field = <<>> THEN "undefined" ELSE field[1]

\* !field
Falsy(field) == field = <<>> \/ field[1] = ""

\* a WorkspaceStorageService after init(): root.then(...) is registered
WsInit ==
    [root |-> "pending", stat |-> NoStat, prefix |-> <<>>,
     initialized |-> "pending", waiting |-> <<>>, jobs |-> <<>>,
     count |-> 0, log |-> <<>>]

\* prefixWorkspaceURI(originalKey): this.prefix + ":" + originalKey
prefixWorkspaceURI(w, originalKey) == FieldToString(w.prefix) \o ":" \o originalKey

\* the call on the underlying storage that a setData or getData ends with;
\* early tells whether the call was made before the root had resolved
StorageCall(w, op, key, early) ==
    [op |-> op, key |-> key, fullKey |-> prefixWorkspaceURI(w, key), early |-> early]

\* the continuation of a call after `await this.initialized`
Continuation(op, key, early) == [job |-> "continue", op |-> op, key |-> key, early |-> early]

\* variant: the call goes on without waiting for this.initialized
AwaitSkipped(w, op, key) ==
    [w EXCEPT !.log = Append(@, StorageCall(w, op, key, w.root = "pending"))]

\* `await this.initialized` in a call: suspended while the promise is
\* pending, resumed by a promise job once it is resolved, rejected with it
AwaitInitialized(w, op, key) ==
    IF w.initialized = "pending"
    THEN [w EXCEPT !.waiting = Append(@, Continuation(op, key, w.root = "pending"))]
    ELSE IF w.initialized = "resolved"
         THEN [w EXCEPT !.jobs = Append(@, Continuation(op, key, FALSE))]
         ELSE w

(***************************************************************************)
(* CachedRemoteEntry.                                                      *)
(***************************************************************************)
\* what Axios.get(url) resolves with, and what it is rejected with
Responses == {"r1", "r2"}
EntryErrors == {"timeout"}

\* an entry after construction: _response and _error undefined.  inFlight
\* holds the polls suspended in `await Axios.get`, polls and requests count
\* the calls of poll and of Axios.get, and first records the first outcome
\* settled since construction or the last clear()
EntryInit ==
    [response |-> <<>>, error |-> <<>>, inFlight |-> {}, polls |-> 0,
     requests |-> 0, first |-> <<>>]

\* hasError(): typeof this._error !== 'undefined'
hasError(e) == e.error # <<>>

\* get response(): throws this._error when set, else this._response
getResponse(e) ==
    IF e.error # <<>> THEN [threw |-> TRUE, value |-> e.error]
                      ELSE [threw |-> FALSE, value |-> e.response]

\* hasResponse(): typeof this.response !== 'undefined', through the getter
hasResponse(e) ==
    IF getResponse(e).threw THEN [threw |-> TRUE, value |-> FALSE]
                            ELSE [threw |-> FALSE, value |-> getResponse(e).value # <<>>]

\* the state after construction, the contributions being one of lists
InitFrom(lists) ==
    /\ \E list \in lists :
          /\ contributions = list
          /\ contribs = RegisterAll(<<>>, list)
    /\ held = <<>>
    /\ frame = <<>>
    /\ ui = UiInit
    /\ ws = WsInit
    /\ entry = EntryInit
    /\ sessions = <<>>
    /\ heap = <<>>
    /\ uuidCount = 0
    /\ calls = <<>>
    /\ live = {}
    /\ lastOp = Op("new", <<>>, <<>>, NoError)

Init == InitFrom(ContributionLists)

\* a client calls DebugServiceImpl.start(config): create, then session.start();
\* a throw of create rejects the promise start returns
Start(config) ==
    /\ uuidCount < MaxStarts
    /\ LET r == create(config)
       IN  /\ uuidCount' = uuidCount + 1
           /\ sessions' = r.sessions
           /\ IF r.ok
              THEN LET started == SessionStart(r.heap[r.session])
                   IN  /\ heap' = [r.heap EXCEPT ![r.session] = started]
                       /\ live' = live \cup {r.session}
                       /\ calls' = Append(calls, startPromise(r.session, started))
                       /\ lastOp' = Op("start", <<config, r.sessionId>>,
                                       <<r.session>>, NoError)
              ELSE /\ heap' = r.heap
                   /\ live' = live
                   /\ calls' = calls
                   /\ lastOp' = Op("start", <<config, r.sessionId>>, <<>>, r.error)
    /\ UNCHANGED contribs

\* the transport settles the handshake of a started session, ok or failed,
\* and the continuations of session.start() run: its start call settles
Handshake(ref, outcome) ==
    /\ ref \in 1..Len(heap)
    /\ heap[ref].handshake = "pending"
    /\ outcome = "ok" => heap[ref].life # "terminated"
    /\ heap' = [heap EXCEPT ![ref].handshake = outcome]
    /\ calls' = [c \in 1..Len(calls) |->
                   IF calls[c].session = ref /\ calls[c].status = "pending"
                   THEN startPromise(ref, heap'[ref])
                   ELSE calls[c]]
    /\ lastOp' = Op("handshake", <<heap[ref].id, outcome>>, <<ref>>,
                    IF outcome = "ok" THEN NoError ELSE HandshakeError(heap[ref].id))
    /\ UNCHANGED <<contribs, sessions, uuidCount, live>>

\* a client calls DebugServiceImpl.dispose(...args)
Dispose(args) ==
    /\ LET targets == dispose(sessions, args)
       IN  /\ heap' = [i \in 1..Len(heap) |->
                          IF i \in Range(targets) THEN SessionStop(heap[i]) ELSE heap[i]]
           /\ lastOp' = Op("dispose", args, targets, NoError)
    /\ UNCHANGED <<contribs, sessions, uuidCount, calls, live>>

\* a session's adapter terminates, asked to or by itself
Terminate(ref) ==
    /\ ref \in 1..Len(heap)
    /\ heap[ref].life # "terminated"
    /\ heap' = [heap EXCEPT ![ref].life = "terminated"]
    /\ lastOp' = Op("terminate", <<heap[ref].id>>, <<ref>>, NoError)
    /\ UNCHANGED <<contribs, sessions, uuidCount, calls, live>>

\* a termination notification of a terminated session is delivered, by any
\* of its paths: sessionManager.remove(session.id)
TerminationNotification(ref) ==
    /\ ref \in 1..Len(heap)
    /\ heap[ref].life = "terminated"
    /\ sessions' = remove(sessions, heap[ref].id)
    /\ live' = { r \in live : heap[r].id # heap[ref].id }
    /\ lastOp' = Op("notify",
                    <<heap[ref].id,
                      IF MapHas(sessions, heap[ref].id) THEN "present" ELSE "absent">>,
                    <<ref>>, NoError)
    /\ UNCHANGED <<contribs, heap, uuidCount, calls>>

\* a step of the debug service or of one of its sessions
ServiceStep ==
    \/ \E config \in Configs : Start(config)
    \/ \E ref \in 1..MaxStarts, outcome \in {"ok", "failed"} : Handshake(ref, outcome)
    \/ \E args \in {<<>>} \cup { <<id>> : id \in IdArgs } : Dispose(args)
    \/ \E ref \in 1..MaxStarts : Terminate(ref)
    \/ \E ref \in 1..MaxStarts : TerminationNotification(ref)

Next == ServiceStep /\ UNCHANGED <<contributions, held, frame, ui, ws, entry>>

\* the promise of an async method of DebugServiceImpl whose body returned
\* or threw r
Async(r) ==
    [status |-> IF r.ok THEN "resolved" ELSE "rejected", value |-> r.value]

\* the error r threw, if any
Thrown(r) == IF r.ok THEN NoError ELSE r.value

\* a client calls DebugServiceImpl.debugTypes()
DebugTypes ==
    /\ lastOp' = Op("debugTypes", <<>>,
                    <<Async([ok |-> TRUE, value |-> debugTypes])>>, NoError)
    /\ UNCHANGED <<frame, ui, ws, entry, contributions, contribs, sessions, heap, uuidCount, calls, live, held>>

\* a client calls DebugServiceImpl.provideDebugConfigurations(debugType)
ProvideDebugConfigurations(debugType) ==
    /\ LET r == provideDebugConfigurations(debugType)
       IN  lastOp' = Op("provideDebugConfigurations", <<debugType>>, <<Async(r)>>,
                       Thrown(r))
    /\ UNCHANGED <<frame, ui, ws, entry, contributions, contribs, sessions, heap, uuidCount, calls, live, held>>

\* a client calls DebugServiceImpl.resolveDebugConfiguration(config)
ResolveDebugConfiguration(config) ==
    /\ LET r == resolveDebugConfiguration(config)
       IN  lastOp' = Op("resolveDebugConfiguration", <<config>>, <<Async(r)>>,
                       Thrown(r))
    /\ UNCHANGED <<frame, ui, ws, entry, contributions, contribs, sessions, heap, uuidCount, calls, live, held>>

\* a component calls registry.provideDebugAdapterExecutable(config)
ProvideDebugAdapterExecutable(config) ==
    /\ LET r == provideDebugAdapterExecutable(config)
       IN  lastOp' = Op("provideDebugAdapterExecutable", <<config>>, <<r>>, Thrown(r))
    /\ UNCHANGED <<frame, ui, ws, entry, contributions, contribs, sessions, heap, uuidCount, calls, live, held>>

\* a component calls registry.debugAdapterSessionFactory(debugType)
DebugAdapterSessionFactory(debugType) ==
    /\ lastOp' = Op("debugAdapterSessionFactory", <<debugType>>,
                    <<debugAdapterSessionFactory(debugType)>>, NoError)
    /\ UNCHANGED <<frame, ui, ws, entry, contributions, contribs, sessions, heap, uuidCount, calls, live, held>>

\* the registry built from any list of contributions, queried by clients,
\* and the sessions created through it
InitRegistry == InitFrom(RegistryLists)

NextRegistry ==
    \/ DebugTypes
    \/ \E t \in TypeArgs : ProvideDebugConfigurations(t)
    \/ \E config \in QueryConfigs : ResolveDebugConfiguration(config)
    \/ \E config \in QueryConfigs : ProvideDebugAdapterExecutable(config)
    \/ \E t \in TypeArgs : DebugAdapterSessionFactory(t)
    \/ \E config \in QueryConfigs \ {Config("mock", "Invalid")} :
          Start(config) /\ UNCHANGED <<contributions, held, frame, ui, ws, entry>>

SpecRegistry == InitRegistry /\ [][NextRegistry]_vars

(***************************************************************************)
(* create, statement by statement: what the code that runs inside          *)
(* factory.get finds.  JavaScript runs create to completion, so only the   *)
(* factory's own code runs between the statements.                         *)
(***************************************************************************)
\* the error of a factory.get that throws
FactoryError(id) == "session factory failed: " \o id

\* create(config) up to the call of factory.get: the identifier, the factory
\* and the executable are there, sessions.set has not run
CreateEnter(config) ==
    /\ frame = <<>>
    /\ uuidCount < MaxStarts
    /\ LET custom     == debugAdapterSessionFactory(config.type)
           executable == provideDebugAdapterExecutable(config)
       IN  /\ executable.ok
           /\ frame' = <<[config |-> config, sessionId |-> uuid4,
                          factory |-> IF custom # "" THEN custom ELSE defaultFactory,
                          executable |-> executable.value]>>
           /\ lastOp' = Op("factory.get", <<config, uuid4>>, <<>>, NoError)
    /\ UNCHANGED <<contributions, contribs, sessions, heap, uuidCount, calls, live, held, ui, ws, entry>>

\* a start whose create throws in provideDebugAdapterExecutable
CreateThrows(config) ==
    /\ frame = <<>>
    /\ ~provideDebugAdapterExecutable(config).ok
    /\ Start(config)
    /\ UNCHANGED <<contributions, held, frame, ui, ws, entry>>

\* the factory's code, inside get, looks the identifier it was given up:
\* sessionManager.find(sessionId)
FactoryFinds ==
    /\ frame # <<>>
    /\ lastOp' = Op("find", <<frame[1].sessionId>>,
                    <<find(sessions, frame[1].sessionId)>>, NoError)
    /\ UNCHANGED <<frame, ui, ws, entry, contributions, contribs, sessions, heap, uuidCount, calls, live, held>>

\* factory.get returns the session: sessions.set, create returns, start goes on
FactoryReturns ==
    /\ frame # <<>>
    /\ Start(frame[1].config)
    /\ frame' = <<>>
    /\ UNCHANGED <<contributions, held, ui, ws, entry>>

\* factory.get throws: create and start end with its error
FactoryThrows ==
    /\ frame # <<>>
    /\ frame' = <<>>
    /\ uuidCount' = uuidCount + 1
    /\ lastOp' = Op("start", <<frame[1].config, frame[1].sessionId>>, <<>>,
                    FactoryError(frame[1].sessionId))
    /\ UNCHANGED <<contributions, contribs, sessions, heap, calls, live, held, ui, ws, entry>>

NextCreate ==
    \/ \E config \in Configs : CreateEnter(config)
    \/ \E config \in Configs : CreateThrows(config)
    \/ FactoryFinds
    \/ FactoryReturns
    \/ FactoryThrows
    \/ \E ref \in 1..MaxStarts :
          frame = <<>> /\ Terminate(ref) /\ UNCHANGED <<contributions, held, frame, ui, ws, entry>>
    \/ \E ref \in 1..MaxStarts :
          /\ frame = <<>>
          /\ TerminationNotification(ref)
          /\ UNCHANGED <<contributions, held, frame, ui, ws, entry>>

SpecCreate == Init /\ [][NextCreate]_vars

(***************************************************************************)
(* The START and STOP commands.  Each `then` of the START chain runs when  *)
(* the promise before it settles; chains of several executions interleave. *)
(***************************************************************************)
\* the state of the backend, which the commands reach through promises only
backend == <<contributions, contribs, sessions, heap, uuidCount, calls, live, held, frame>>

\* what getConfiguration() settles with: a configuration the user chose,
\* or a rejection
ConfigurationChoices == {"mock", "nonexistent", "none"}

ConfigurationResult(choice) ==
    IF choice = "mock"
    THEN [status |-> "resolved", value |-> Config("mock", "Launch")]
    ELSE IF choice = "nonexistent"
         THEN [status |-> "resolved", value |-> Config("nonexistent", "x")]
         ELSE [status |-> "rejected", value |-> "no configuration selected"]

\* what debug.resolveDebugConfiguration(config) settles with: the answer of
\* the service, or a resolution to nothing
ResolveAnswers == {"service", "nothing"}

ResolveResult(answer, config) ==
    IF answer = "service"
    THEN Async(resolveDebugConfiguration(config))
    ELSE [status |-> "resolved", value |-> NoConfig]

\* the chain c of ui replaced by chain
WithChain(c, chain) == [ui EXCEPT !.chains[c] = chain]

\* the START command is executed
StartExecute ==
    /\ StartEnabled
    /\ Len(ui.chains) < MaxChains
    /\ ui' = [ui EXCEPT !.chains = Append(@, NewChain)]
    /\ lastOp' = Op("START", <<>>, <<Len(ui.chains) + 1>>, NoError)
    /\ UNCHANGED <<backend, ws, entry>>

\* getConfiguration() of chain c settles; resolved, the first `then` calls
\* debug.resolveDebugConfiguration(configuration)
ConfigurationSettles(c, choice) ==
    /\ c \in 1..Len(ui.chains)
    /\ ui.chains[c].step = "getConfiguration"
    /\ LET chain  == ui.chains[c]
           result == ConfigurationResult(choice)
       IN  /\ ui' = WithChain(c,
                      IF result.status = "resolved"
                      THEN [chain EXCEPT
                              !.step = "resolveDebugConfiguration",
                              !.trace = Append(@, "resolveDebugConfiguration"),
                              !.config = result.value]
                      ELSE Rejected(chain, result.value))
           /\ lastOp' = Op("getConfiguration", <<c>>, <<result>>, NoError)
    /\ UNCHANGED <<backend, ws, entry>>

\* resolveDebugConfiguration of chain c settles; resolved with a
\* configuration, the second `then` calls debug.startDebugSession, resolved
\* with nothing it rejects
ResolveSettles(c, answer) ==
    /\ c \in 1..Len(ui.chains)
    /\ ui.chains[c].step = "resolveDebugConfiguration"
    /\ LET chain  == ui.chains[c]
           result == ResolveResult(answer, chain.config)
       IN  /\ ui' = WithChain(c,
                      IF result.status = "rejected"
                      THEN Rejected(chain, result.value)
                      ELSE IF result.value # NoConfig
                           THEN [chain EXCEPT
                                   !.step = "startDebugSession",
                                   !.trace = Append(@, "startDebugSession"),
                                   !.config = result.value]
                           ELSE Rejected(chain, NotResolved))
           /\ lastOp' = Op("resolveDebugConfiguration", <<c>>, <<result>>, NoError)
    /\ UNCHANGED <<backend, ws, entry>>

\* variant: the client is made the active one as soon as it is created
StartSettlesActivating(c, outcome) ==
    /\ c \in 1..Len(ui.chains)
    /\ ui.chains[c].step = "startDebugSession"
    /\ LET chain     == ui.chains[c]
           sessionId == Uuid(c)
           ref       == Len(ui.objects) + 1
       IN  ui' = IF outcome = "ok"
                 THEN [ui EXCEPT
                         !.objects = Append(@, NewClient(sessionId)),
                         !.clients = MapSet(@, sessionId, ref),
                         !.active = ref,
                         !.chains[c] =
                             [chain EXCEPT !.step = "connect",
                                           !.trace = @ \o <<"create", "connect">>,
                                           !.client = ref]]
                 ELSE WithChain(c, Rejected(chain, "start failed"))
    /\ lastOp' = Op("startDebugSession", <<c>>, <<outcome>>, NoError)
    /\ UNCHANGED <<backend, ws, entry>>

\* startDebugSession of chain c settles; resolved with a session id, the
\* third `then` creates the client of that session and calls its connect()
StartSettles(c, outcome) ==
    /\ c \in 1..Len(ui.chains)
    /\ ui.chains[c].step = "startDebugSession"
    /\ LET chain     == ui.chains[c]
           sessionId == Uuid(c)
           ref       == Len(ui.objects) + 1
       IN  ui' = IF outcome = "ok"
                 THEN [ui EXCEPT
                         !.objects = Append(@, NewClient(sessionId)),
                         !.clients = MapSet(@, sessionId, ref),
                         !.chains[c] =
                             [chain EXCEPT !.step = "connect",
                                           !.trace = @ \o <<"create", "connect">>,
                                           !.client = ref]]
                 ELSE WithChain(c, Rejected(chain, "start failed"))
    /\ lastOp' = Op("startDebugSession", <<c>>, <<outcome>>, NoError)
    /\ UNCHANGED <<backend, ws, entry>>

\* connect() of the client of chain c settles; resolved, the last `then`
\* makes the client the active one and sends it "initialize"
ConnectSettles(c, outcome) ==
    /\ c \in 1..Len(ui.chains)
    /\ ui.chains[c].step = "connect"
    /\ LET chain == ui.chains[c]
           ref   == chain.client
       IN  ui' = IF outcome = "ok"
                 THEN [ui EXCEPT
                         !.objects[ref].connected = TRUE,
                         !.objects[ref].sent = Append(@, "initialize"),
                         !.active = ref,
                         !.chains[c] =
                             [chain EXCEPT !.step = "done",
                                           !.trace = @ \o <<"setActiveDebugClient",
                                                            "initialize">>]]
                 ELSE WithChain(c, Rejected(chain, "connect failed"))
    /\ lastOp' = Op("connect", <<c>>, <<outcome>>, NoError)
    /\ UNCHANGED <<backend, ws, entry>>

\* the STOP command is executed: the active client is disposed and removed
\* from the manager; clears tells whether the manager's remove also unsets
\* the active client
StopExecute(clears) ==
    /\ StopEnabled
    /\ LET debugClient == getActiveDebugClient
       IN  /\ ui' = [ui EXCEPT
                       !.objects[debugClient].disposed = TRUE,
                       !.clients = MapDelete(@, ui.objects[debugClient].sessionId),
                       !.active = IF clears THEN NoClient ELSE @]
           /\ lastOp' = Op("STOP", <<clears>>, <<debugClient>>, NoError)
    /\ UNCHANGED <<backend, ws, entry>>

NextCommands ==
    \/ StartExecute
    \/ \E c \in 1..MaxChains, choice \in ConfigurationChoices :
          ConfigurationSettles(c, choice)
    \/ \E c \in 1..MaxChains, answer \in ResolveAnswers : ResolveSettles(c, answer)
    \/ \E c \in 1..MaxChains, outcome \in {"ok", "failed"} : StartSettles(c, outcome)
    \/ \E c \in 1..MaxChains, outcome \in {"ok", "failed"} : ConnectSettles(c, outcome)
    \/ \E clears \in BOOLEAN : StopExecute(clears)

SpecCommands == Init /\ [][NextCommands]_vars

(***************************************************************************)
(* WorkspaceStorageService: calls, the resolution of the workspace root    *)
(* and the promise jobs, in every order the event loop admits.             *)
(***************************************************************************)
\* a client calls setData(key, data)
SetData(key) ==
    /\ ws.count < MaxStorageCalls
    /\ LET w == [ws EXCEPT !.count = @ + 1]
       IN  ws' = IF Falsy(ws.prefix)
                 THEN AwaitInitialized(w, "setData", key)
                 ELSE [w EXCEPT !.log = Append(@, StorageCall(w, "setData", key, FALSE))]
    /\ lastOp' = Op("setData", <<key>>, <<>>, NoError)
    /\ UNCHANGED <<backend, ui, entry>>

\* a client calls getData(key)
GetData(key) ==
    /\ ws.count < MaxStorageCalls
    /\ ws' = AwaitInitialized([ws EXCEPT !.count = @ + 1], "getData", key)
    /\ lastOp' = Op("getData", <<key>>, <<>>, NoError)
    /\ UNCHANGED <<backend, ui, entry>>

\* workspaceService.root resolves with stat: the callback of init's `then`
\* is queued
RootResolves(stat) ==
    /\ ws.root = "pending"
    /\ ws' = [ws EXCEPT !.root = "resolved", !.stat = stat,
                         !.jobs = Append(@, [job |-> "init", op |-> "", key |-> "",
                                             early |-> FALSE])]
    /\ lastOp' = Op("root", <<stat>>, <<>>, NoError)
    /\ UNCHANGED <<backend, ui, entry>>

\* workspaceService.root is rejected: this.initialized will be too
RootRejects ==
    /\ ws.root = "pending"
    /\ ws' = [ws EXCEPT !.root = "rejected",
                         !.jobs = Append(@, [job |-> "reject", op |-> "", key |-> "",
                                             early |-> FALSE])]
    /\ lastOp' = Op("root", <<>>, <<>>, "no workspace service")
    /\ UNCHANGED <<backend, ui, entry>>

\* the first promise job runs: the callback of init, which sets the prefix
\* and resolves this.initialized; the rejection of this.initialized; or the
\* rest of a call after its await, which calls the underlying storage
RunJob ==
    /\ ws.jobs # <<>>
    /\ LET j == Head(ws.jobs)
       IN  ws' = IF j.job = "init"
                 THEN [ws EXCEPT
                         !.prefix = <<IF ws.stat # NoStat THEN ws.stat ELSE "_global_">>,
                         !.initialized = "resolved",
                         !.jobs = Tail(@) \o ws.waiting,
                         !.waiting = <<>>]
                 ELSE IF j.job = "reject"
                      THEN [ws EXCEPT !.initialized = "rejected",
                                      !.jobs = Tail(@), !.waiting = <<>>]
                      ELSE [ws EXCEPT
                              !.log = Append(@, StorageCall(ws, j.op, j.key, j.early)),
                              !.jobs = Tail(@)]
    /\ lastOp' = Op("job", <<Head(ws.jobs).job>>, <<>>, NoError)
    /\ UNCHANGED <<backend, ui, entry>>

NextStorage ==
    \/ \E key \in StorageKeys : SetData(key)
    \/ \E key \in StorageKeys : GetData(key)
    \/ \E stat \in RootUris \cup {NoStat} : RootResolves(stat)
    \/ RootRejects
    \/ RunJob

SpecStorage == Init /\ [][NextStorage]_vars

(***************************************************************************)
(* CachedRemoteEntry: polls, the settling of their requests, and clear().  *)
(***************************************************************************)
\* poll(timeout) up to its first await: throws the error held, returns the
\* response held, or sends a request and suspends
Poll ==
    /\ entry.polls < MaxPolls
    /\ LET p == entry.polls + 1
           e == [entry EXCEPT !.polls = p]
       IN  IF entry.error # <<>>
           THEN /\ entry' = e
                /\ lastOp' = Op("poll", <<p>>, <<>>, entry.error[1])
           ELSE IF entry.response # <<>>
                THEN /\ entry' = e
                     /\ lastOp' = Op("poll", <<p>>, entry.response, NoError)
                ELSE /\ entry' = [e EXCEPT !.requests = @ + 1,
                                           !.inFlight = @ \cup {p}]
                     /\ lastOp' = Op("request", <<p>>, <<>>, NoError)
    /\ UNCHANGED <<backend, ui, ws>>

\* the request of poll p settles: `this._response = await ...` resolves
\* the poll with the response, the catch block sets _error and rethrows
RequestSettles(p, outcome) ==
    /\ p \in entry.inFlight
    /\ LET e == [entry EXCEPT !.inFlight = @ \ {p},
                              !.first = IF @ = <<>> THEN <<outcome>> ELSE @]
       IN  IF outcome \in Responses
           THEN /\ entry' = [e EXCEPT !.response = <<outcome>>]
                /\ lastOp' = Op("settle", <<p>>, <<outcome>>, NoError)
           ELSE /\ entry' = [e EXCEPT !.error = <<outcome>>]
                /\ lastOp' = Op("settle", <<p>>, <<>>, outcome)
    /\ UNCHANGED <<backend, ui, ws>>

\* clear(): both fields back to undefined; requests in flight stay so
Clear ==
    /\ entry' = [entry EXCEPT !.response = <<>>, !.error = <<>>, !.first = <<>>]
    /\ lastOp' = Op("clear", <<>>, <<>>, NoError)
    /\ UNCHANGED <<backend, ui, ws>>

NextEntry ==
    \/ Poll
    \/ \E p \in 1..MaxPolls, outcome \in Responses \cup EntryErrors :
          RequestSettles(p, outcome)
    \/ Clear

SpecEntry == Init /\ [][NextEntry]_vars

\* dispose() without an id, where the stop() of round pos ends the adapters
\* of victims at once and their termination notifications are delivered
\* before it returns
DisposeReentrant(pos, victims) ==
    /\ pos \in 1..Len(sessions)
    /\ victims # {} /\ victims \subseteq Range(findAll(sessions))
    /\ LET r == ForEachStop(findAllArray(sessions), 1, sessions, <<>>, pos,
                            { heap[v].id : v \in victims })
       IN  /\ sessions' = r.sessions
           /\ heap' = [i \in 1..Len(heap) |->
                          IF i \in victims THEN [heap[i] EXCEPT !.life = "terminated"]
                          ELSE IF i \in Range(r.stopped) THEN SessionStop(heap[i])
                          ELSE heap[i]]
           /\ lastOp' = Op("dispose-reentrant", <<pos, victims>>, r.stopped, NoError)
    /\ live' = live \ victims
    /\ UNCHANGED <<frame, ui, ws, entry, contributions, contribs, uuidCount, calls, held>>

\* a caller calls sessionManager.findAll() and keeps the array
FindAll ==
    /\ held' = <<findAllArray(sessions)>>
    /\ lastOp' = Op("findAll", <<>>, ArrayItems(held'[1], sessions), NoError)
    /\ UNCHANGED <<frame, ui, ws, entry, contributions, contribs, sessions, heap, uuidCount, calls, live>>

\* the caller removes the last element of the array it keeps
HolderPop ==
    /\ held # <<>>
    /\ ArrayItems(held[1], sessions) # <<>>
    /\ LET r == ArrayPop(held[1], sessions)
       IN  /\ held' = <<r.array>>
           /\ sessions' = r.sessions
    /\ lastOp' = Op("pop", <<>>, <<>>, NoError)
    /\ UNCHANGED <<frame, ui, ws, entry, contributions, contribs, heap, uuidCount, calls, live>>

\* the session manager, its sessions' terminations, and the arrays it hands out
NextArrays ==
    \/ \E config \in Configs : Start(config) /\ UNCHANGED <<contributions, held, frame, ui, ws, entry>>
    \/ \E ref \in 1..MaxStarts : Terminate(ref) /\ UNCHANGED <<contributions, held, frame, ui, ws, entry>>
    \/ \E ref \in 1..MaxStarts :
          TerminationNotification(ref) /\ UNCHANGED <<contributions, held, frame, ui, ws, entry>>
    \/ \E pos \in 1..MaxStarts, victims \in SUBSET (1..MaxStarts) :
          DisposeReentrant(pos, victims)
    \/ FindAll
    \/ HolderPop

SpecArrays == Init /\ [][NextArrays]_vars

Spec == Init /\ [][Next]_vars

\* a session asked to stop terminates, and the notification of a terminated
\* session still in the map is delivered
Fairness ==
    /\ \A ref \in 1..MaxStarts :
          WF_vars(/\ ref \in 1..Len(heap) /\ heap[ref].life = "stopping"
                  /\ Terminate(ref) /\ UNCHANGED <<contributions, held, frame, ui, ws, entry>>)
    /\ \A ref \in 1..MaxStarts :
          WF_vars(/\ ref \in Range(findAll(sessions))
                  /\ TerminationNotification(ref) /\ UNCHANGED <<contributions, held, frame, ui, ws, entry>>)

FairSpec == Spec /\ Fairness

(***************************************************************************)
(* Properties.                                                             *)
(***************************************************************************)
Live == Range(findAll(sessions))

\* the live session whose identifier is id, or NoSession
LiveWithId(id) ==
    IF \E r \in live : heap[r].id = id
    THEN CHOOSE r \in live : heap[r].id = id
    ELSE NoSession

\* C1: when the handshake of a start call has failed and the call is
\* rejected, the session create inserted is no longer in the live set:
\* findAll() does not hold it and find(its id) is not-found
C1_NoLeakOnHandshakeFailure ==
    \A c \in 1..Len(calls) :
        calls[c].status = "rejected" =>
            /\ calls[c].session \notin Range(findAll(sessions))
            /\ find(sessions, heap[calls[c].session].id) = NoSession

\* C2: the identifiers of all the sessions create has returned are pairwise
\* distinct, and right after a create returns, findAll() holds its session,
\* which carries the identifier generated for it
C2_IdsDistinctAndPresent ==
    /\ \A i, j \in 1..Len(heap) : i # j => heap[i].id # heap[j].id
    /\ (lastOp.op = "start" /\ lastOp.ret # <<>>) =>
          /\ lastOp.ret[1] \in Range(findAll(sessions))
          /\ heap[lastOp.ret[1]].id = lastOp.arg[2]

\* C2's case: a third create has returned while the first start is in flight
C2_Witness ==
    /\ lastOp.op = "start" /\ lastOp.ret = <<3>>
    /\ Len(sessions) = 3
    /\ calls[1].status = "pending"

\* C3: the live map holds exactly the sessions create has returned and whose
\* identifier remove was not called with since, each under its own identifier
C3_LiveSetIsCreatedNotRemoved ==
    /\ Range(findAll(sessions)) = live
    /\ Len(sessions) = Cardinality(live)
    /\ \A i \in 1..Len(sessions) : sessions[i][1] = heap[sessions[i][2]].id
    /\ \A id \in IdArgs : find(sessions, id) = LiveWithId(id)

\* C3's case: one session was removed, then another one created
C3_Witness ==
    /\ lastOp.op = "start" /\ lastOp.ret = <<2>>
    /\ live = {2}
    /\ heap[1].life = "terminated"

C5_UnknownTypeRejected ==
    [][(uuidCount' # uuidCount /\ ~MapHas(contribs, lastOp'.arg[1].type)) =>
          /\ lastOp'.err = NotRegistered(lastOp'.arg[1].type)
          /\ lastOp'.ret = <<>>
          /\ sessions' = sessions
          /\ calls' = calls]_vars

\* C5's case: an unregistered type was started while sessions are live
C5_Witness ==
    /\ lastOp.op = "start" /\ lastOp.arg[1] = Config("nonexistent", "x")
    /\ lastOp.err = NotRegistered("nonexistent")
    /\ Len(sessions) = 2

\* C6: after a start whose executable provisioning fails, the map has no entry
\* under the identifier generated for it, no session carries it, and the
\* failure is the error the start is rejected with
C6_NoEntryOnProvisioningFailure ==
    (lastOp.op = "start" /\ ~provideDebugAdapterExecutable(lastOp.arg[1]).ok) =>
        /\ lastOp.err = provideDebugAdapterExecutable(lastOp.arg[1]).value
        /\ lastOp.err # NoError
        /\ lastOp.ret = <<>>
        /\ ~MapHas(sessions, lastOp.arg[2])
        /\ \A r \in 1..Len(heap) : heap[r].id # lastOp.arg[2]

\* C6's case: the contribution has rejected the configuration
C6_Witness ==
    /\ lastOp.op = "start" /\ lastOp.arg[1] = Config("mock", "Attach")
    /\ lastOp.err \in {ContributorError(MockA, lastOp.arg[1]),
                       ContributorError(MockB, lastOp.arg[1])}
    /\ Len(sessions) = 1

\* C7: remove(id) of a termination notification leaves no entry under id,
\* leaves every other entry as it was, changes nothing when id is absent, and
\* a second remove(id) changes nothing
C7_RemoveIdempotent ==
    [][lastOp'.op = "notify" =>
          LET id == lastOp'.arg[1]
          IN  /\ ~MapHas(sessions', id)
              /\ \A k \in IdArgs \ {id} : find(sessions', k) = find(sessions, k)
              /\ Len(sessions') = Len(sessions) - (IF MapHas(sessions, id) THEN 1 ELSE 0)
              /\ ~MapHas(sessions, id) => sessions' = sessions
              /\ remove(sessions', id) = sessions']_vars

\* C7's case: a second remove of an identifier while other sessions are live
C7_Witness ==
    /\ lastOp.op = "notify" /\ lastOp.arg[2] = "absent"
    /\ Len(sessions) = 2

\* C8: find(id) is the live session stored under id, and undefined for every
\* id that is not live; dispose(id) finds just that, without an error
C8_FindLiveOrUndefined ==
    /\ \A id \in IdArgs :
          /\ find(sessions, id) = LiveWithId(id)
          /\ find(sessions, id) # NoSession => heap[find(sessions, id)].id = id
    /\ (lastOp.op = "dispose" /\ Len(lastOp.arg) = 1 /\ lastOp.arg[1] # "") =>
          /\ lastOp.err = NoError
          /\ lastOp.ret = IF find(sessions, lastOp.arg[1]) # NoSession
                          THEN <<find(sessions, lastOp.arg[1])>> ELSE <<>>

\* C8's case: an identifier that was created and removed is looked up, and
\* nothing is found, while another session is live
C8_Witness ==
    /\ lastOp.op = "dispose" /\ lastOp.arg = <<Uuid(1)>> /\ lastOp.ret = <<>>
    /\ Len(heap) = 2 /\ heap[1].id = Uuid(1)
    /\ live = {2}

\* C9: a start call is resolved only when the handshake of the session its
\* create returned has succeeded, and with that session's identifier; while
\* the handshake is pending, so is the call
C9_ResolvedAfterHandshake ==
    \A c \in 1..Len(calls) :
        /\ calls[c].session \in 1..Len(heap)
        /\ calls[c].status = "resolved" =>
              /\ heap[calls[c].session].handshake = "ok"
              /\ calls[c].value = heap[calls[c].session].id
        /\ heap[calls[c].session].handshake = "pending" => calls[c].status = "pending"

\* C9's case: one start has resolved while another is pending
C9_Witness ==
    /\ Len(calls) = 2
    /\ calls[1].status = "pending"
    /\ calls[2].status = "resolved" /\ calls[2].value = heap[2].id

\* C10: dispose(id) with a given string calls stop() on the live session with
\* that identifier and on no other, and on none when no live session has it
C10_StopByIdOnlyThatSession ==
    (lastOp.op = "dispose" /\ Len(lastOp.arg) = 1) =>
        lastOp.ret = IF LiveWithId(lastOp.arg[1]) # NoSession
                     THEN <<LiveWithId(lastOp.arg[1])>> ELSE <<>>

\* C11: dispose() without an id calls stop() exactly once on every session
\* that is live at the call and on no other one, and does not fail; with no
\* live session it calls none
C11_StopAllStopsEveryLive ==
    (lastOp.op = "dispose" /\ lastOp.arg = <<>>) =>
        /\ Range(lastOp.ret) = live
        /\ Len(lastOp.ret) = Cardinality(live)
        /\ \A r \in Range(lastOp.ret) : heap[r].life # "alive"
        /\ lastOp.err = NoError

\* C11's case: two sessions are live and a third one was removed
C11_Witness ==
    /\ lastOp.op = "dispose" /\ lastOp.arg = <<>>
    /\ lastOp.ret = <<2, 3>>
    /\ Len(heap) = 3 /\ live = {2, 3}

\* C12: dispose() without an id, with remove calls made while it iterates,
\* calls stop() exactly once on every session that was live when it began,
\* in the order of the map, and does not fail; the removed ones are gone
C12_StopAllToleratesRemove ==
    [][lastOp'.op = "dispose-reentrant" =>
          /\ lastOp'.ret = MapValues(sessions)
          /\ lastOp'.err = NoError
          /\ Range(MapValues(sessions')) = Range(MapValues(sessions)) \ lastOp'.arg[2]]_vars

\* C12's case: the first stop() removes the third session, not yet visited
C12_Witness ==
    /\ lastOp.op = "dispose-reentrant"
    /\ lastOp.arg[1] = 1 /\ 3 \in lastOp.arg[2]
    /\ lastOp.ret = <<1, 2, 3>>

\* C13: the array findAll() returns holds the sessions live at the call;
\* steps that change the map leave the array a caller keeps as it was, and
\* changing the array leaves the map as it was
C13_FindAllReturnsCopy ==
    [][/\ lastOp'.op = "findAll" =>
             /\ ArrayItems(held'[1], sessions') = MapValues(sessions)
             /\ Range(lastOp'.ret) = live
       /\ (held # <<>> /\ lastOp'.op \notin {"findAll", "pop"}) =>
             /\ held' = held
             /\ ArrayItems(held'[1], sessions') = ArrayItems(held[1], sessions)
       /\ lastOp'.op = "pop" =>
             /\ sessions' = sessions
             /\ Len(ArrayItems(held'[1], sessions')) = Len(ArrayItems(held[1], sessions)) - 1]_vars

\* C13's case: the kept array still holds a session removed after the call,
\* and lacks one created after it
C13_Witness ==
    /\ held # <<>>
    /\ ArrayItems(held[1], sessions) = <<1, 2>>
    /\ live = {2, 3}

\* C14: the sessions map changes only in a create that returns, which adds
\* one entry and keeps the others, and in a remove, which deletes one entry
\* and keeps the others; dispose, with or without an id, and with it find
\* and findAll, leaves the map as it was
C14_MapChangesOnlyByCreateAndRemove ==
    [][/\ sessions' # sessions =>
             \/ /\ lastOp'.op = "start" /\ lastOp'.ret # <<>>
                /\ sessions' = Append(sessions, <<lastOp'.arg[2], lastOp'.ret[1]>>)
             \/ /\ lastOp'.op = "notify"
                /\ Len(sessions') = Len(sessions) - 1
                /\ Range(sessions') \subseteq Range(sessions)
       /\ (lastOp'.op = "start" /\ lastOp'.ret # <<>>) =>
             Len(sessions') = Len(sessions) + 1
       /\ lastOp'.op = "dispose" => sessions' = sessions]_vars

\* C14's case: a session asked to stop, by its id, is still in the map
C14_Witness ==
    /\ lastOp.op = "dispose" /\ lastOp.arg = <<Uuid(1)>> /\ lastOp.ret = <<1>>
    /\ heap[1].life = "stopping"
    /\ find(sessions, Uuid(1)) = 1

(***************************************************************************)
(* The registry against the contributions it was built from.               *)
(***************************************************************************)
\* the debug types of the contributions the provider returned
RegisteredTypes == { contributions[i].debugType : i \in 1..Len(contributions) }

\* the contribution of type t the provider returned last
LastContribution(t) ==
    contributions[CHOOSE i \in 1..Len(contributions) :
                      /\ contributions[i].debugType = t
                      /\ \A j \in (i + 1)..Len(contributions) :
                            contributions[j].debugType # t]

\* where the provider's list has type t first
FirstRegistration(t) ==
    CHOOSE i \in 1..Len(contributions) :
        /\ contributions[i].debugType = t
        /\ \A j \in 1..(i - 1) : contributions[j].debugType # t

\* the factory a create for type t has to invoke
FactoryInvokedFor(t) ==
    IF LastContribution(t).debugAdapterSessionFactory # ""
    THEN LastContribution(t).debugAdapterSessionFactory
    ELSE defaultFactory

\* C15: for a type no contributor was registered for, resolve,
\* initialConfigurations and executableFor fail with the unknown-adapter-type
\* error, at the registry by throwing it and through the facade as a promise
\* rejected with it, and listTypes never holds a type that was not registered
C15_UnknownTypeFailsEverywhere ==
    /\ Range(debugTypes) \subseteq RegisteredTypes
    /\ lastOp.op = "debugTypes" =>
          /\ lastOp.ret[1].status = "resolved"
          /\ Range(lastOp.ret[1].value) \subseteq RegisteredTypes
    /\ (lastOp.op = "provideDebugConfigurations"
          /\ lastOp.arg[1] \notin RegisteredTypes) =>
          /\ lastOp.err = NotRegistered(lastOp.arg[1])
          /\ lastOp.ret[1] = [status |-> "rejected",
                              value |-> NotRegistered(lastOp.arg[1])]
    /\ (lastOp.op = "resolveDebugConfiguration"
          /\ lastOp.arg[1].type \notin RegisteredTypes) =>
          /\ lastOp.err = NotRegistered(lastOp.arg[1].type)
          /\ lastOp.ret[1] = [status |-> "rejected",
                              value |-> NotRegistered(lastOp.arg[1].type)]
    /\ (lastOp.op = "provideDebugAdapterExecutable"
          /\ lastOp.arg[1].type \notin RegisteredTypes) =>
          /\ lastOp.err = NotRegistered(lastOp.arg[1].type)
          /\ lastOp.ret[1] = [ok |-> FALSE,
                              value |-> NotRegistered(lastOp.arg[1].type)]

\* C15's case: resolve of a configuration of an unregistered type, through
\* the facade of a registry that has contributions, was rejected
C15_Witness ==
    /\ contributions = <<MockA, NodeA>>
    /\ lastOp.op = "resolveDebugConfiguration"
    /\ lastOp.arg = <<Config("nonexistent", "x")>>
    /\ lastOp.ret[1].status = "rejected"

\* C16: a session that create made comes from the custom factory of the
\* contributor registered for its type when that contributor declares one
\* and from the default factory otherwise, and every create that returned
\* made exactly one session, through one factory
C16_CustomFactoryOrDefault ==
    /\ \A ref \in 1..Len(heap) :
          heap[ref].factory = FactoryInvokedFor(heap[ref].config.type)
    /\ Len(heap) = Len(calls)
    /\ (lastOp.op = "start" /\ lastOp.ret # <<>>) =>
          /\ lastOp.ret[1] = Len(heap)
          /\ heap[lastOp.ret[1]].config = lastOp.arg[1]

\* C16's case: one create went to the custom factory of a contributor and
\* another to the default factory
C16_Witness ==
    /\ contributions = <<NodeA, MockA>>
    /\ Len(heap) = 2
    /\ heap[1].factory = "factory:nodeA"
    /\ heap[2].factory = defaultFactory
    /\ lastOp.op = "start" /\ lastOp.ret = <<2>>

\* C17: sessionFactoryFor never fails; it returns the custom factory of the
\* contributor registered for the type when that contributor declares one,
\* and the none result when it declares none or when no contributor is
\* registered for the type
C17_SessionFactoryForNeverFails ==
    lastOp.op = "debugAdapterSessionFactory" =>
        /\ lastOp.err = NoError
        /\ lastOp.ret =
              <<IF lastOp.arg[1] \in RegisteredTypes
                THEN LastContribution(lastOp.arg[1]).debugAdapterSessionFactory
                ELSE "">>

\* C17's case: the lookup for a type whose contributor declares no factory,
\* in a registry where another contributor declares one, returned none
C17_Witness ==
    /\ contributions = <<NodeA, MockA>>
    /\ lastOp.op = "debugAdapterSessionFactory"
    /\ lastOp.arg = <<"mock">>
    /\ lastOp.ret = <<"">>

\* C18: resolve(c), executableFor(c) and the factory and executable of a
\* session created for c are all answered by the contributor stored under
\* c.type, whatever contributors are registered
C18_AnsweredByContributorOfType ==
    /\ (lastOp.op = "resolveDebugConfiguration"
          /\ lastOp.arg[1].type \in RegisteredTypes) =>
          LET c == LastContribution(lastOp.arg[1].type)
          IN  /\ c.debugType = lastOp.arg[1].type
              /\ lastOp.ret[1] = Async(ContribResolve(c, lastOp.arg[1]))
    /\ (lastOp.op = "provideDebugAdapterExecutable"
          /\ lastOp.arg[1].type \in RegisteredTypes) =>
          LET c == LastContribution(lastOp.arg[1].type)
          IN  lastOp.ret[1].value =
                  IF lastOp.arg[1].name \in c.rejects
                  THEN ContributorError(c, lastOp.arg[1])
                  ELSE "exec:" \o c.label \o ":" \o lastOp.arg[1].name
    /\ \A ref \in 1..Len(heap) :
          LET c == LastContribution(heap[ref].config.type)
          IN  /\ heap[ref].config.type \in RegisteredTypes
              /\ heap[ref].executable =
                     "exec:" \o c.label \o ":" \o heap[ref].config.name
              /\ heap[ref].factory \in {c.debugAdapterSessionFactory, defaultFactory}

\* C18's case: a session of type node was created in a registry whose first
\* contributor is of type mock and declares a factory of its own
C18_Witness ==
    /\ contributions = <<MockB, NodeA>>
    /\ lastOp.op = "start" /\ lastOp.ret = <<1>>
    /\ heap[1].config = Config("node", "Launch")
    /\ heap[1].executable = "exec:nodeA:Launch"
    /\ heap[1].factory = "factory:nodeA"

\* C19: the registry holds one contributor per debug type, for every type
\* registered, and of two contributors of one type the one registered last
\* answers every later lookup: the outcome depends on the registration order
\* alone
C19_OneContributorPerType ==
    /\ \A i, j \in 1..Len(contribs) : contribs[i][1] = contribs[j][1] => i = j
    /\ Range(MapKeys(contribs)) = RegisteredTypes
    /\ \A t \in RegisteredTypes :
          contribs[MapIndex(contribs, t)][2] = LastContribution(t)
    /\ (lastOp.op = "provideDebugConfigurations"
          /\ lastOp.arg[1] \in RegisteredTypes) =>
          lastOp.ret[1] = [status |-> "resolved",
                          value |-> ContribConfigurations(
                                        LastContribution(lastOp.arg[1]))]

\* C19's case: two contributors of type mock were registered, and a lookup
\* got the templates of the second
C19_Witness ==
    /\ contributions = <<MockB, MockA>>
    /\ Len(contribs) = 1
    /\ lastOp.op = "provideDebugConfigurations"
    /\ lastOp.arg = <<"mock">>
    /\ lastOp.ret[1].value = <<Config("mock", "Launch")>>

\* C20: listTypes returns each registered type once, in the order in which
\* the types were first registered; the sequence is fixed by the
\* registrations, so every call after construction returns the same one
C20_TypesOnceInRegistrationOrder ==
    lastOp.op = "debugTypes" =>
        LET types == lastOp.ret[1].value
        IN  /\ Range(types) = RegisteredTypes
            /\ \A i, j \in 1..Len(types) : types[i] = types[j] => i = j
            /\ \A i, j \in 1..Len(types) :
                  i < j => FirstRegistration(types[i]) < FirstRegistration(types[j])

\* C20's case: a type registered twice, with another type in between, is
\* listed once, before the other, after sessions were created
C20_Witness ==
    /\ contributions = <<MockA, NodeA, MockB>>
    /\ Len(heap) > 0
    /\ lastOp.op = "debugTypes"
    /\ lastOp.ret[1].value = <<"mock", "node">>

\* C21: create is atomic with respect to the identifier and the map: the
\* factory that was handed the identifier, and the code it runs, finds it in
\* the map, and every identifier generated is in the map when create ends,
\* also when the factory or the provisioning of the executable fails
C21_CreateAtomic ==
    /\ frame # <<>> => MapHas(sessions, frame[1].sessionId)
    /\ lastOp.op = "find" => lastOp.ret[1] # NoSession
    /\ lastOp.op = "start" => MapHas(sessions, lastOp.arg[2])

\* C22: start calls in flight together do not interfere: each has a session
\* and an identifier of its own, a call that succeeds returns the identifier
\* of its own session, and the end of one call's handshake, ok or failed,
\* changes neither the map nor the session or the result of another call
C22_StartsDoNotInterfere ==
    /\ [](\A i, j \in 1..Len(calls) :
             /\ i # j => (/\ calls[i].session # calls[j].session
                          /\ heap[calls[i].session].id # heap[calls[j].session].id)
             /\ calls[i].status = "resolved" =>
                   /\ heap[calls[i].session].handshake = "ok"
                   /\ calls[i].value = heap[calls[i].session].id
             /\ calls[i].status = "rejected" =>
                   heap[calls[i].session].handshake = "failed")
    /\ [][/\ lastOp'.op = "handshake" =>
               /\ sessions' = sessions
               /\ \A i \in 1..Len(calls) :
                     (calls[i].session # lastOp'.ret[1]) => (calls'[i] = calls[i])
               /\ \A r \in 1..Len(heap) :
                     (r # lastOp'.ret[1]) => (heap'[r] = heap[r])
          /\ lastOp'.op = "start" =>
               /\ SubSeq(calls', 1, Len(calls)) = calls
               /\ SubSeq(sessions', 1, Len(sessions)) = sessions
               /\ SubSeq(heap', 1, Len(heap)) = heap]_vars

\* C22's case: with three calls in flight the handshake of the second
\* succeeded after that of the first had failed; the third is still pending
C22_Witness ==
    /\ Len(calls) = 3
    /\ calls[1].status = "rejected"
    /\ calls[2] = [session |-> 2, status |-> "resolved", value |-> Uuid(2)]
    /\ calls[3].status = "pending"
    /\ lastOp.op = "handshake" /\ lastOp.ret = <<2>>
    /\ Len(sessions) = 3

C24_IdsNeverReused ==
    /\ \A i, j \in 1..Len(heap) : heap[i].id = heap[j].id => i = j
    /\ (lastOp.op = "start" /\ lastOp.ret # <<>>) =>
          \A r \in 1..Len(heap) :
              heap[r].id = lastOp.arg[2] => r = lastOp.ret[1]

\* C24's case: a create returned after the two sessions before it had been
\* removed from the map
C24_Witness ==
    /\ lastOp.op = "start" /\ lastOp.ret = <<3>>
    /\ MapKeys(sessions) = <<Uuid(3)>>
    /\ heap[1].id = Uuid(1) /\ heap[2].id = Uuid(2)

\* C25: the error a contributor raises in its resolve or in its provisioning
\* of the executable reaches the caller of the registry, of create and of
\* the facade as that same value, and the failed call is made once: a start
\* that fails so draws one identifier and constructs nothing
C25_ContributorErrorsUnmodified ==
    /\ [](
          /\ (/\ lastOp.op = "resolveDebugConfiguration"
              /\ lastOp.arg[1].type \in RegisteredTypes
              /\ lastOp.arg[1].name = "Invalid") =>
                 LET e == ContribResolve(LastContribution(lastOp.arg[1].type),
                                         lastOp.arg[1]).value
                 IN  /\ lastOp.err = e
                     /\ lastOp.ret[1] = [status |-> "rejected", value |-> e]
          /\ (/\ lastOp.op \in {"provideDebugAdapterExecutable", "start"}
              /\ lastOp.arg[1].type \in RegisteredTypes
              /\ lastOp.arg[1].name \in
                     LastContribution(lastOp.arg[1].type).rejects) =>
                 LET x == ContributorError(LastContribution(lastOp.arg[1].type),
                                           lastOp.arg[1])
                 IN  /\ lastOp.err = x
                     /\ lastOp.op = "start" => lastOp.ret = <<>>
                     /\ lastOp.op = "provideDebugAdapterExecutable" =>
                           lastOp.ret[1] = [ok |-> FALSE, value |-> x]
          )
    /\ [][(lastOp'.op = "start" /\ lastOp'.err # NoError) =>
             /\ uuidCount' = uuidCount + 1
             /\ heap' = heap
             /\ sessions' = sessions
             /\ calls' = calls]_vars

\* C25's case: resolve of a configuration its contributor finds invalid,
\* through the facade, was rejected with the contributor's error
C25_Witness ==
    /\ contributions = <<MockA, MockB>>
    /\ lastOp.op = "resolveDebugConfiguration"
    /\ lastOp.arg = <<Config("mock", "Invalid")>>
    /\ lastOp.ret[1] = [status |-> "rejected",
                        value |-> "invalid for mockB: Invalid"]

C27_EntryUnderGeneratedId ==
    /\ [](\A i \in 1..Len(sessions) : heap[sessions[i][2]].id = sessions[i][1])
    /\ [][(frame # <<>> /\ lastOp'.op = "start" /\ lastOp'.ret # <<>>) =>
             /\ lastOp'.ret[1] = Len(heap) + 1
             /\ find(sessions', frame[1].sessionId) = lastOp'.ret[1]
             /\ heap'[lastOp'.ret[1]].id = frame[1].sessionId
             /\ heap'[lastOp'.ret[1]].config = frame[1].config
             /\ heap'[lastOp'.ret[1]].executable = frame[1].executable
             /\ heap'[lastOp'.ret[1]].factory = frame[1].factory]_vars

\* C27's case: after a create that failed, the next one returned; its
\* session, the first, is found under the second identifier
C27_Witness ==
    /\ frame = <<>>
    /\ lastOp.op = "start" /\ lastOp.ret = <<1>> /\ lastOp.arg[2] = Uuid(2)
    /\ find(sessions, Uuid(2)) = 1
    /\ heap[1].id = Uuid(2)

\* C28: within create the factory's get is called at most once, and only
\* after the executable was provided: a create whose provisioning throws
\* constructs no session, and one that returns constructs one, which holds
\* the executable provided
C28_FactoryAfterProvisioning ==
    /\ [](frame # <<>> =>
             /\ provideDebugAdapterExecutable(frame[1].config).ok
             /\ frame[1].executable =
                   provideDebugAdapterExecutable(frame[1].config).value)
    /\ [][lastOp'.op = "start" =>
             IF lastOp'.err # NoError
             THEN heap' = heap
             ELSE /\ Len(heap') = Len(heap) + 1
                  /\ SubSeq(heap', 1, Len(heap)) = heap
                  /\ heap'[Len(heap')].executable =
                        provideDebugAdapterExecutable(lastOp'.arg[1]).value]_vars

\* C28's case: a create of a registered type threw in the provisioning of
\* the executable, after a create that had returned
C28_Witness ==
    /\ frame = <<>>
    /\ lastOp.op = "start"
    /\ lastOp.arg[1] = Config("mock", "Attach")
    /\ lastOp.err # NoError
    /\ Len(heap) = 1

(***************************************************************************)
(* The debug commands of the browser.                                      *)
(***************************************************************************)
IsPrefix(a, b) == Len(a) <= Len(b) /\ SubSeq(b, 1, Len(a)) = a

\* C29: in every state one of START and STOP is enabled and the other is
\* not: START when no active debug client is set, STOP when one is; an
\* execution of STOP disposes the active client and removes its session id
\* from the client manager
C29_OneOfStartAndStopEnabled ==
    /\ [](/\ StartEnabled # StopEnabled
          /\ StartEnabled <=> ui.active = NoClient
          /\ StopEnabled <=> ui.active # NoClient)
    /\ [][lastOp'.op = "STOP" =>
             /\ ui.active # NoClient
             /\ lastOp'.ret = <<ui.active>>
             /\ ui'.objects[ui.active].disposed
             /\ ~MapHas(ui'.clients, ui.objects[ui.active].sessionId)
             /\ \A i \in 1..Len(ui.clients) :
                   ui.clients[i][1] # ui.objects[ui.active].sessionId =>
                       MapHas(ui'.clients, ui.clients[i][1])]_vars

\* C29's case: STOP was executed with a second client connecting; the
\* active client is disposed and removed, the other is kept
C29_Witness ==
    /\ lastOp.op = "STOP" /\ lastOp.ret = <<1>>
    /\ Len(ui.objects) = 2
    /\ ui.objects[1].disposed
    /\ MapKeys(ui.clients) = <<ui.objects[2].sessionId>>
    /\ StartEnabled

\* C30: the calls of a START chain are made in the order of ChainOrder; a
\* chain that was rejected, also by a resolution to nothing, makes no later
\* call; a client becomes the active one only when its connect has
\* succeeded, and "initialize" is sent only to the client just made active
C30_StartChainInOrder ==
    /\ [](/\ \A c \in 1..Len(ui.chains) :
                /\ IsPrefix(ui.chains[c].trace, ChainOrder)
                /\ ui.chains[c].step = "done" <=> ui.chains[c].trace = ChainOrder
                /\ ui.chains[c].err = NotResolved =>
                      ui.chains[c].trace = SubSeq(ChainOrder, 1, 2)
          /\ ui.active # NoClient => ui.objects[ui.active].connected
          /\ \A r \in 1..Len(ui.objects) :
                ui.objects[r].sent # <<>> =>
                    /\ ui.objects[r].connected
                    /\ ui.objects[r].sent = <<"initialize">>)
    /\ [][/\ \A c \in 1..Len(ui.chains) :
                /\ ui.chains[c].step = "rejected" => ui'.chains[c] = ui.chains[c]
                /\ IsPrefix(ui.chains[c].trace, ui'.chains[c].trace)
          /\ \A r \in 1..Len(ui.objects) :
                (ui'.objects[r].sent # ui.objects[r].sent) =>
                    (/\ ui'.active = r
                     /\ lastOp'.op = "connect"
                     /\ ui.chains[lastOp'.arg[1]].client = r)
          /\ (ui'.active # ui.active /\ ui'.active # NoClient) =>
                (/\ lastOp'.op = "connect"
                 /\ lastOp'.ret = <<"ok">>
                 /\ ui'.active = ui.chains[lastOp'.arg[1]].client)]_vars

\* C30's case: of two chains under way together the first was rejected
\* because its resolution yielded nothing, the second ran to its end
C30_Witness ==
    /\ Len(ui.chains) = 2
    /\ ui.chains[1].err = NotResolved
    /\ ui.chains[2].step = "done"
    /\ ui.active = 1
    /\ ui.objects[1].sent = <<"initialize">>
    /\ lastOp.op = "connect"

(***************************************************************************)
(* The workspace storage and the remote entries of the browser.            *)
(***************************************************************************)
\* C31: every call WorkspaceStorageService makes on the underlying storage,
\* for a setData or getData made before or after the workspace root
\* resolved, is made once the prefix is set, with the key
\* '<root uri>:<key>' when there is a root and '_global_:<key>' when not
C31_NoKeyFromUnsetPrefix ==
    \A i \in 1..Len(ws.log) :
        /\ ws.root = "resolved"
        /\ ws.prefix # <<>>
        /\ ws.log[i].fullKey =
              (IF ws.stat # NoStat THEN ws.stat ELSE "_global_")
                  \o ":" \o ws.log[i].key

\* C31's case: a setData made before the root resolved was stored under the
\* root's uri, and so was a getData made after
C31_Witness ==
    /\ Len(ws.log) = 2
    /\ ws.log[1] = [op |-> "setData", key |-> "layout",
                    fullKey |-> "file:///home/ws:layout", early |-> TRUE]
    /\ ws.log[2].op = "getData" /\ ~ws.log[2].early

\* C32: CachedRemoteEntry caches its first settled outcome: once a poll has
\* resolved with a response every later poll returns that response without
\* a new request, once a poll has failed every later poll fails with that
\* error without a new request, until clear(); and hasError and hasResponse
\* are never both true
C32_CachesFirstSettledOutcome ==
    /\ [](~(hasError(entry) /\ hasResponse(entry).value))
    /\ [][(entry'.polls = entry.polls + 1 /\ entry.first # <<>>) =>
             (/\ entry'.requests = entry.requests
              /\ lastOp'.op = "poll"
              /\ IF entry.first[1] \in Responses
                 THEN lastOp'.ret = entry.first /\ lastOp'.err = NoError
                 ELSE lastOp'.err = entry.first[1])]_vars

====
